---- MODULE Spec2Model ----
(***************************************************************************)
(* architect-linter: the per-file rule checker (analyzer.rs), the          *)
(* orchestration of a run (main.rs) and the dependency-graph cycle         *)
(* detector (circular.rs).                                                 *)
(*                                                                         *)
(* Strings are sequences of one-character strings, so that to_lowercase,   *)
(* contains and starts_with are computed character by character.           *)
(***************************************************************************)
EXTENDS Integers, Sequences, FiniteSets, TLC

VARIABLES
    config,       \* main: architect.json as the run found it, and whether setup saved one
    ctx,          \* LinterContext of the run: [max_lines, forbidden_imports]
    file,         \* SpecCheck: the file handed to analyze_file
    result,       \* SpecCheck: what analyze_file returned for it
    files,        \* main: the list collect_files returned
    pc,           \* main: position of the main thread
    task,         \* main: per file, the state of its for_each closure
    error_count,  \* main: the value inside Arc<Mutex<i32>>
    lock,         \* main: index of the task holding the mutex, 0 when free
    checks,       \* main: per file, how often analyze_file was called on it
    exit_code,    \* main: process exit status, NoExit while running
    detect_runs,  \* how often detect_cycles has been called
    graph,        \* detector: CircularDependencyAnalyzer.graph
    todo,         \* detector: keys that graph.keys() has not yet yielded
    visited,      \* detector: detect_cycles' visited
    rec_stack,    \* detector: detect_cycles' rec_stack
    path,         \* detector: detect_cycles' path
    cycles,       \* detector: detect_cycles' cycles
    frames,       \* detector: the active calls of dfs_detect_cycles, innermost last
    dpc,          \* detector: position in analyze_circular_dependencies
    build_runs,   \* graph builder: how often build_graph has been called
    npaths,       \* SpecNormalize: the two paths handed to normalize_file_path
    nkeys,        \* SpecNormalize: the keys returned for them, and for the keys
    rin,          \* SpecResolve: the file, the import and the disk handed to resolve_import_path
    rout          \* SpecResolve: what resolve_import_path returned

\* what the graph builder and the path normalisation add to the state
bldvars == <<build_runs, npaths, nkeys, rin, rout>>

detvars == <<detect_runs, graph, todo, visited, rec_stack, path, cycles, frames, dpc, bldvars>>

vars == <<config, ctx, file, result, files, pc, task, error_count, lock, checks, exit_code, detvars>>

(***************************************************************************)
(* Bounds of the model.                                                    *)
(***************************************************************************)
MaxItems == 2      \* top-level items of a generated file
MaxMembers == 2    \* members of all class bodies of a generated file together
MaxRules == 2      \* entries of a generated forbidden_imports list
MaxFiles == 3      \* files of a project
NumWorkers == 2    \* threads of the rayon pool
MaxDeg == 2        \* entries of one node's edge list in a generated graph
MaxEdges == 4      \* entries of all edge lists of a generated graph together

(***************************************************************************)
(* Strings                                                                 *)
(***************************************************************************)
UpperChars == <<"A","B","C","D","E","F","G","H","I","J","K","L","M",
                "N","O","P","Q","R","S","T","U","V","W","X","Y","Z">>
LowerChars == <<"a","b","c","d","e","f","g","h","i","j","k","l","m",
                "n","o","p","q","r","s","t","u","v","w","x","y","z">>

\* the lower-case letter of each upper-case letter
LowerOf ==
    [c \in {UpperChars[i] : i \in 1..Len(UpperChars)} |->
        LowerChars[CHOOSE i \in 1..Len(UpperChars) : UpperChars[i] = c]]

lower_char(c) == IF c \in DOMAIN LowerOf THEN LowerOf[c] ELSE c

to_lowercase(s) == [i \in 1..Len(s) |-> lower_char(s[i])]

contains(s, pat) ==
    \E i \in 0..(Len(s) - Len(pat)) : \A j \in 1..Len(pat) : s[i + j] = pat[j]

starts_with(s, pat) ==
    /\ Len(pat) <= Len(s)
    /\ SubSeq(s, 1, Len(pat)) = pat

S_controller == <<"c","o","n","t","r","o","l","l","e","r">>
S_repository == <<".","r","e","p","o","s","i","t","o","r","y">>

\* Option: a sequence of no or one element
None == <<>>
Some(x) == <<x>>

(***************************************************************************)
(* analyzer.rs: analyze_file                                               *)
(*                                                                         *)
(* A file is [path, load, items]: load is "ok", "io_error" (load_file      *)
(* fails) or "syntax_error" (parse_module fails).  An item is              *)
(* [kind, src, members] with kind "import" (ModuleDecl::Import), "class"   *)
(* (Stmt::Decl(Decl::Class)) or "other" (any other ModuleItem).  A member  *)
(* is [kind, lo, hi] with kind "method" (ClassMember::Method) or "other",  *)
(* lo and hi the lines of span.lo and span.hi.                             *)
(*                                                                         *)
(* The returned value is [kind, item, member, rule, lines]: kind "Ok" for  *)
(* Ok(()), otherwise the error; item and member locate the reported span,  *)
(* rule is the index of the configured rule named in the message (0 for    *)
(* the built-in controller/repository rule), lines the reported count.     *)
(***************************************************************************)
OkResult == [kind |-> "Ok", item |-> 0, member |-> 0, rule |-> 0, lines |-> 0]
LoadError == [kind |-> "LoadError", item |-> 0, member |-> 0, rule |-> 0, lines |-> 0]
SyntaxError == [kind |-> "SyntaxError", item |-> 0, member |-> 0, rule |-> 0, lines |-> 0]
ForbiddenImport(i, k) ==
    [kind |-> "ForbiddenImport", item |-> i, member |-> 0, rule |-> k, lines |-> 0]
MethodTooLong(i, j, n) ==
    [kind |-> "MethodTooLong", item |-> i, member |-> j, rule |-> 0, lines |-> n]

is_err(r) == r.kind # "Ok"

\* a rule that fires when either pattern is found, not both
rule_matches_either(rule, file_path_str, source) ==
    LET from_pattern == to_lowercase(rule.from)
        to_pattern == to_lowercase(rule.to)
    IN  contains(file_path_str, from_pattern) \/ contains(source, to_pattern)

\* analyzer.rs:35-39, the condition of one configured rule
rule_matches(rule, file_path_str, source) ==
    LET from_pattern == to_lowercase(rule.from)
        to_pattern == to_lowercase(rule.to)
    IN  contains(file_path_str, from_pattern) /\ contains(source, to_pattern)

\* analyzer.rs:34-49, the loop over ctx.forbidden_imports from index k on:
\* the index of the first rule that matches, 0 when none does
RECURSIVE first_forbidden(_, _, _, _)
first_forbidden(rules, k, file_path_str, source) ==
    IF k > Len(rules) THEN 0
    ELSE IF rule_matches(rules[k], file_path_str, source) THEN k
    ELSE first_forbidden(rules, k + 1, file_path_str, source)

\* the built-in rule with its two operands exchanged
builtin_matches_swapped(file_path_str, source) ==
    contains(source, S_controller) /\ contains(file_path_str, S_repository)

\* analyzer.rs:52, the built-in rule
builtin_matches(file_path_str, source) ==
    contains(file_path_str, S_controller) /\ contains(source, S_repository)

\* analyzer.rs:29-59, one import item
check_import(item, i, file_path_str, c) ==
    LET source == to_lowercase(item.src)
        k == first_forbidden(c.forbidden_imports, 1, file_path_str, source)
    IN  IF k # 0 THEN ForbiddenImport(i, k)
        ELSE IF builtin_matches(file_path_str, source) THEN ForbiddenImport(i, 0)
        ELSE OkResult

\* a limit that already rejects a method of exactly max_lines lines
too_long_inclusive(lines, max_lines) == lines >= max_lines

\* analyzer.rs:70-72
method_lines(m) == m.hi - m.lo
too_long(lines, max_lines) == lines > max_lines

\* analyzer.rs:66-83, the loop over the members of one class from index j on
RECURSIVE check_members(_, _, _, _)
check_members(members, j, i, c) ==
    IF j > Len(members) THEN OkResult
    ELSE IF members[j].kind = "method" /\ too_long(method_lines(members[j]), c.max_lines)
         THEN MethodTooLong(i, j, method_lines(members[j]))
    ELSE check_members(members, j + 1, i, c)

\* analyzer.rs:27-85, the body of the loop for one item
check_item(item, i, file_path_str, c) ==
    IF item.kind = "import" THEN check_import(item, i, file_path_str, c)
    ELSE IF item.kind = "class" THEN check_members(item.members, 1, i, c)
    ELSE OkResult

\* a walk that does not stop at the first error and returns the last one
RECURSIVE check_items_last(_, _, _, _)
check_items_last(items, i, file_path_str, c) ==
    IF i > Len(items) THEN OkResult
    ELSE LET r == check_item(items[i], i, file_path_str, c)
             rest == check_items_last(items, i + 1, file_path_str, c)
         IN  IF is_err(rest) THEN rest ELSE r

\* analyzer.rs:27-86, the loop over module.body from index i on
RECURSIVE check_items(_, _, _, _)
check_items(items, i, file_path_str, c) ==
    IF i > Len(items) THEN OkResult
    ELSE LET r == check_item(items[i], i, file_path_str, c)
         IN  IF is_err(r) THEN r
             ELSE check_items(items, i + 1, file_path_str, c)

\* a checker that swallows a parse failure and reports the file as clean
analyze_file_lenient(f, c) ==
    IF f.load = "io_error" THEN LoadError
    ELSE check_items(f.items, 1, to_lowercase(f.path), c)

\* analyzer.rs:7-87
analyze_file(f, c) ==
    IF f.load = "io_error" THEN LoadError
    ELSE IF f.load = "syntax_error" THEN SyntaxError
    ELSE check_items(f.items, 1, to_lowercase(f.path), c)

(***************************************************************************)
(* Inputs of the rule checker                                              *)
(***************************************************************************)
SeqsUpTo(S, n) == UNION {[1..k -> S] : k \in 0..n}

P_presentation == <<"s","r","c","/","p","r","e","s","e","n","t","a","t","i","o","n","/","x",".","t","s">>
P_controller == <<"s","r","c","/","U","s","e","r","C","o","n","t","r","o","l","l","e","r",".","t","s">>
I_infrastructure == <<".",".","/","I","n","f","r","a","s","t","r","u","c","t","u","r","e","/","y">>
I_domain == <<".",".","/","d","o","m","a","i","n","/","y">>
I_repository == <<".","/","u","s","e","r",".","r","e","p","o","s","i","t","o","r","y">>
R_presentation == <<"P","r","e","s","e","n","t","a","t","i","o","n">>
R_infrastructure == <<"i","n","f","r","a","s","t","r","u","c","t","u","r","e">>
R_src == <<"S","R","C">>
R_slash == <<"/">>

GenPaths == {P_presentation, P_controller}
GenSources == {I_infrastructure, I_domain, I_repository}
GenRules == {[from |-> R_presentation, to |-> R_infrastructure],
             [from |-> R_src, to |-> R_slash]}
GenMaxLines == {1, 2}
GenMembers == {[kind |-> "method", lo |-> 1, hi |-> 3],
               [kind |-> "method", lo |-> 1, hi |-> 4],
               [kind |-> "other", lo |-> 1, hi |-> 4]}

ImportItem(s) == [kind |-> "import", src |-> s, members |-> <<>>]
ClassItem(ms) == [kind |-> "class", src |-> <<>>, members |-> ms]
OtherItem == [kind |-> "other", src |-> <<>>, members |-> <<>>]

GenItems ==
    {ImportItem(s) : s \in GenSources}
        \cup {ClassItem(ms) : ms \in SeqsUpTo(GenMembers, MaxMembers)}
        \cup {OtherItem}

RECURSIVE member_count(_)
member_count(its) ==
    IF its = <<>> THEN 0 ELSE Len(Head(its).members) + member_count(Tail(its))

GenItemLists == {its \in SeqsUpTo(GenItems, MaxItems) : member_count(its) <= MaxMembers}

GenFiles ==
    {[path |-> p, load |-> "ok", items |-> its] : p \in GenPaths, its \in GenItemLists}
        \cup {[path |-> p, load |-> l, items |-> <<>>] :
                p \in GenPaths, l \in {"io_error", "syntax_error"}}

GenCtx ==
    {[max_lines |-> m, forbidden_imports |-> rs] :
        m \in GenMaxLines, rs \in SeqsUpTo(GenRules, MaxRules)}

NoResult == [kind |-> "None", item |-> 0, member |-> 0, rule |-> 0, lines |-> 0]
NoFile == [path |-> <<>>, load |-> "ok", items |-> <<>>]
NoExit == -1
NoCtx == [max_lines |-> 0, forbidden_imports |-> <<>>]
NoResolve == [current_file |-> <<>>, import_path |-> <<>>, fs |-> {}]
NoResolved == [done |-> FALSE, path |-> <<>>]
NoConfig == [kind |-> "none", max_lines |-> [type |-> "null", num |-> 0, str |-> <<>>],
             is_array |-> FALSE, rules |-> <<>>, saved |-> FALSE]

(***************************************************************************)
(* SpecCheck: analyze_file applied to every generated file and context     *)
(***************************************************************************)
DetIdle ==
    /\ detect_runs = 0
    /\ graph = <<>>
    /\ todo = {}
    /\ visited = {}
    /\ rec_stack = {}
    /\ path = <<>>
    /\ cycles = <<>>
    /\ frames = <<>>
    /\ dpc = "idle"
    /\ build_runs = 0
    /\ npaths = <<>>
    /\ nkeys = <<>>
    /\ rin = NoResolve
    /\ rout = NoResolved

MainIdle ==
    /\ config = NoConfig
    /\ files = <<>>
    /\ pc = "idle"
    /\ task = <<>>
    /\ error_count = 0
    /\ lock = 0
    /\ checks = <<>>
    /\ exit_code = NoExit

InitCheck ==
    /\ ctx \in GenCtx
    /\ file \in GenFiles
    /\ result = NoResult
    /\ MainIdle
    /\ DetIdle

CheckFile ==
    /\ pc = "idle"
    /\ result = NoResult
    /\ result' = analyze_file(file, ctx)
    /\ UNCHANGED <<detvars, config, ctx, file, files, pc, task, error_count, lock, checks, exit_code>>

NextCheck == CheckFile

SpecCheck == InitCheck /\ [][NextCheck]_vars

(***************************************************************************)
(* Rule checker claims (SpecCheck).  The predicates below describe which   *)
(* items offend, item by item, without walking the file.                   *)
(***************************************************************************)
Checked == result # NoResult /\ file.load = "ok"
ItemIdx == 1..Len(file.items)
RuleIdx == 1..Len(ctx.forbidden_imports)
FilePathLc == to_lowercase(file.path)

RuleHits(k, i) ==
    /\ contains(FilePathLc, to_lowercase(ctx.forbidden_imports[k].from))
    /\ contains(to_lowercase(file.items[i].src), to_lowercase(ctx.forbidden_imports[k].to))

BuiltinHits(i) ==
    /\ contains(FilePathLc, S_controller)
    /\ contains(to_lowercase(file.items[i].src), S_repository)

ImportOffends(i) ==
    /\ file.items[i].kind = "import"
    /\ (\E k \in RuleIdx : RuleHits(k, i)) \/ BuiltinHits(i)

MethodOffends(i, j) ==
    /\ file.items[i].kind = "class"
    /\ j \in 1..Len(file.items[i].members)
    /\ file.items[i].members[j].kind = "method"
    /\ file.items[i].members[j].hi - file.items[i].members[j].lo > ctx.max_lines

ClassOffends(i) == \E j \in 1..Len(file.items[i].members) : MethodOffends(i, j)

ItemOffends(i) == ImportOffends(i) \/ ClassOffends(i)

Earliest(i) == ItemOffends(i) /\ \A h \in 1..(i - 1) : ~ItemOffends(h)

FirstRule(i) == CHOOSE k \in RuleIdx : RuleHits(k, i) /\ \A h \in 1..(k - 1) : ~RuleHits(h, i)

FirstMethod(i) ==
    CHOOSE j \in 1..Len(file.items[i].members) :
        MethodOffends(i, j) /\ \A h \in 1..(j - 1) : ~MethodOffends(i, h)

\* C6: for an import, the configured rules are tested in configuration order;
\* a rule matches exactly when the lower-cased path contains the lower-cased
\* `from` and the lower-cased source contains the lower-cased `to`; the first
\* matching rule is the one reported; an import that no rule (configured or
\* built-in) matches is never reported.  With the rule
\* {Presentation -> infrastructure} alone, src/presentation/x.ts importing
\* "../Infrastructure/y" is forbidden and importing "../domain/y" is not.
C6_FirstMatchingRule ==
    Checked =>
        /\ \A i \in ItemIdx :
            (Earliest(i) /\ file.items[i].kind = "import") =>
                IF \E k \in RuleIdx : RuleHits(k, i)
                THEN result = ForbiddenImport(i, FirstRule(i))
                ELSE result = ForbiddenImport(i, 0)
        /\ result.kind = "ForbiddenImport" =>
            /\ result.item \in ItemIdx
            /\ ImportOffends(result.item)
            /\ result.rule # 0 => RuleHits(result.rule, result.item)
        /\ ( /\ file.path = P_presentation
             /\ ctx.forbidden_imports = <<[from |-> R_presentation, to |-> R_infrastructure]>>
             /\ Len(file.items) = 1 )
           => /\ file.items[1] = ImportItem(I_infrastructure) => result = ForbiddenImport(1, 1)
              /\ file.items[1] = ImportItem(I_domain) => result = OkResult

\* C6 witness: two configured rules both match the reported import and the
\* first of them is the one reported.
C6_Witness ==
    /\ Checked
    /\ result.kind = "ForbiddenImport"
    /\ result.rule = 1
    /\ Len(ctx.forbidden_imports) = 2
    /\ ctx.forbidden_imports[1] # ctx.forbidden_imports[2]
    /\ RuleHits(2, result.item)

ControllerImportsRepository(i) ==
    /\ contains(FilePathLc, S_controller)
    /\ file.items[i].kind = "import"
    /\ contains(file.items[i].src, S_repository)

C9_WitnessImportFirst ==
    /\ Checked
    /\ result.kind = "ForbiddenImport"
    /\ \E i \in ItemIdx : i > result.item /\ ClassOffends(i)

(***************************************************************************)
(* main.rs: one run over a project                                         *)
(*                                                                         *)
(* The project on disk: Catalogue lists the .ts files a project may hold,  *)
(* and a project is any choice of at most MaxFiles of them, in the order   *)
(* collect_files returns them.                                             *)
(***************************************************************************)
ROOT == <<"/","p">>
P_a == <<"/","p","/","a",".","t","s">>
P_b == <<"/","p","/","b",".","t","s">>
P_ctrl == <<"/","p","/","s","r","c","/","U","s","e","r","C","o","n","t","r","o","l","l","e","r",".","t","s">>
P_bad == <<"/","p","/","s","r","c","/","b","a","d",".","t","s">>
P_gone == <<"/","p","/","s","r","c","/","g","o","n","e",".","t","s">>
I_a == <<".","/","a">>
I_b == <<".","/","b">>

F_a == [path |-> P_a, load |-> "ok", items |-> <<ImportItem(I_b)>>]
F_b == [path |-> P_b, load |-> "ok",
        items |-> <<ImportItem(I_a), ClassItem(<<[kind |-> "method", lo |-> 1, hi |-> 3]>>)>>]
F_ctrl == [path |-> P_ctrl, load |-> "ok", items |-> <<ImportItem(I_repository)>>]
F_bad == [path |-> P_bad, load |-> "syntax_error", items |-> <<>>]
F_gone == [path |-> P_gone, load |-> "io_error", items |-> <<>>]

Catalogue == <<F_a, F_b, F_ctrl, F_bad, F_gone>>

\* the members of S in increasing order
SortedSeq(S) ==
    CHOOSE s \in [1..Cardinality(S) -> S] : \A i, j \in 1..Cardinality(S) : i < j => s[i] < s[j]

Projects ==
    {[i \in 1..Cardinality(S) |-> Catalogue[SortedSeq(S)[i]]] :
        S \in {T \in SUBSET (1..Len(Catalogue)) : Cardinality(T) <= MaxFiles}}

FileIdx == 1..Len(files)

(***************************************************************************)
(* architect.json.  A JSON value is [type, num, str]; the file is          *)
(* [kind, max_lines, is_array, rules, saved]: kind "missing" (no such      *)
(* file), "unreadable" (read_to_string fails), "invalid_json" (from_str    *)
(* fails) or "json"; max_lines is the value of max_lines_per_function;     *)
(* is_array tells whether forbidden_imports is an array and rules holds    *)
(* its entries as [from, to] of JSON values; saved tells whether the       *)
(* interactive setup has written the file.                                 *)
(***************************************************************************)
DefaultMaxLines == 40

JNull == [type |-> "null", num |-> 0, str |-> <<>>]
JNum(n) == [type |-> "number", num |-> n, str |-> <<>>]
JStr(t) == [type |-> "string", num |-> 0, str |-> t]

\* serde_json::Value::as_u64 and as_str
as_u64(v) == IF v.type = "number" /\ v.num >= 0 THEN Some(v.num) ELSE None
as_str(v) == IF v.type = "string" THEN Some(v.str) ELSE None

unwrap_or(opt, default) == IF opt = None THEN default ELSE opt[1]

\* main.rs:100-107, filter_map over the entries: an entry whose from or to
\* is no string is left out
RECURSIVE filter_rules(_)
filter_rules(rules) ==
    IF rules = <<>> THEN <<>>
    ELSE IF as_str(Head(rules).from) # None /\ as_str(Head(rules).to) # None
         THEN <<[from |-> as_str(Head(rules).from)[1], to |-> as_str(Head(rules).to)[1]]>>
                  \o filter_rules(Tail(rules))
    ELSE filter_rules(Tail(rules))

\* main.rs:82-118, the branch for an existing architect.json: None for an
\* Err, otherwise the context
load_existing(cfg) ==
    IF cfg.kind \in {"unreadable", "invalid_json"} THEN None
    ELSE Some([max_lines |-> unwrap_or(as_u64(cfg.max_lines), DefaultMaxLines),
               forbidden_imports |-> IF cfg.is_array THEN filter_rules(cfg.rules) ELSE <<>>])

ConfigFile(k, m, a, rs) ==
    [kind |-> k, max_lines |-> m, is_array |-> a, rules |-> rs, saved |-> FALSE]

GenConfigs ==
    {ConfigFile(k, JNull, FALSE, <<>>) : k \in {"missing", "unreadable", "invalid_json"}}
        \cup {ConfigFile("json", m, TRUE, rs) :
                m \in {JNum(n) : n \in GenMaxLines} \cup {JStr(<<"4", "0">>)},
                rs \in {<<>>,
                        <<[from |-> JStr(R_src), to |-> JStr(R_slash)]>>,
                        <<[from |-> JStr(R_src), to |-> JNull]>>}}
        \cup {ConfigFile("json", JNum(n), FALSE, <<>>) : n \in GenMaxLines}

Init ==
    /\ config \in GenConfigs
    /\ ctx = NoCtx
    /\ files \in Projects
    /\ file = NoFile
    /\ result = NoResult
    /\ pc = "config"
    /\ task = <<>>
    /\ error_count = 0
    /\ lock = 0
    /\ checks = <<>>
    /\ exit_code = NoExit
    /\ DetIdle

\* main.rs:30, 82-118, architect.json exists: the context is built from it,
\* or main returns the error of reading or parsing it
LoadConfig ==
    /\ pc = "config"
    /\ config.kind # "missing"
    /\ LET loaded == load_existing(config)
       IN  IF loaded = None
           THEN /\ pc' = "aborted"
                /\ exit_code' = 1
                /\ ctx' = ctx
           ELSE /\ pc' = "collect"
                /\ exit_code' = exit_code
                /\ ctx' = loaded[1]
    /\ UNCHANGED <<detvars, config, file, result, files, task, error_count, lock, checks>>

\* main.rs:30, 120-185, no architect.json: the user is asked, the answers
\* are saved as architect.json and make the context
SetupConfig ==
    /\ pc = "config"
    /\ config.kind = "missing"
    /\ \E max_lines \in GenMaxLines :
        ctx' = [max_lines |-> max_lines, forbidden_imports |-> <<>>]
    /\ config' = [config EXCEPT !.saved = TRUE]
    /\ pc' = "collect"
    /\ UNCHANGED <<detvars, file, result, files, task, error_count, lock, checks, exit_code>>

\* main.rs:134, 151, 166, 176, a prompt or the write fails: main returns
\* the error
SetupFails ==
    /\ pc = "config"
    /\ config.kind = "missing"
    /\ pc' = "aborted"
    /\ exit_code' = 1
    /\ UNCHANGED <<detvars, config, ctx, file, result, files, task, error_count, lock, checks>>

\* main.rs:33-37, the file list is empty: "No se encontraron archivos", Ok(())
NoFiles ==
    /\ pc = "collect"
    /\ files = <<>>
    /\ pc' = "done"
    /\ exit_code' = 0
    /\ UNCHANGED <<detvars, config, ctx, file, result, files, task, error_count, lock, checks>>

\* main.rs:33-49, the file list is not empty: the counter is created and one
\* closure per file is handed to the pool
StartParallel ==
    /\ pc = "collect"
    /\ files # <<>>
    /\ pc' = "parallel"
    /\ task' = [i \in FileIdx |-> [pc |-> "queued", result |-> NoResult, reg |-> 0, incs |-> 0]]
    /\ checks' = [i \in FileIdx |-> 0]
    /\ error_count' = 0
    /\ UNCHANGED <<detvars, config, ctx, file, result, files, lock, exit_code>>

\* the closures a pool of NumWorkers threads is running
running(t) == {i \in DOMAIN t : t[i].pc \notin {"queued", "done"}}
worker_free(t) == Cardinality(running(t)) < NumWorkers

\* main.rs:50-52, a free worker takes a file and calls analyze_file on it
TaskAnalyze(i) ==
    /\ pc = "parallel"
    /\ task[i].pc = "queued"
    /\ worker_free(task)
    /\ LET r == analyze_file(files[i], ctx)
       IN  task' = [task EXCEPT ![i].result = r,
                                ![i].pc = IF is_err(r) THEN "lock" ELSE "progress"]
    /\ checks' = [checks EXCEPT ![i] = @ + 1]
    /\ UNCHANGED <<detvars, config, ctx, file, result, files, pc, error_count, lock, exit_code>>

\* a counter that is not protected: lock() never waits
mutex_unprotected(l) == TRUE

\* std::sync::Mutex: lock() returns only while no other thread holds the guard
mutex_free(l) == l = 0

\* main.rs:53, error_count.lock().unwrap()
TaskLock(i) ==
    /\ pc = "parallel"
    /\ task[i].pc = "lock"
    /\ mutex_free(lock)
    /\ lock' = i
    /\ task' = [task EXCEPT ![i].pc = "read"]
    /\ UNCHANGED <<detvars, config, ctx, file, result, files, pc, error_count, checks, exit_code>>

\* main.rs:54, *count += 1: the load
TaskRead(i) ==
    /\ pc = "parallel"
    /\ task[i].pc = "read"
    /\ task' = [task EXCEPT ![i].reg = error_count, ![i].pc = "write"]
    /\ UNCHANGED <<detvars, config, ctx, file, result, files, pc, error_count, lock, checks, exit_code>>

\* main.rs:54, *count += 1: the store
TaskWrite(i) ==
    /\ pc = "parallel"
    /\ task[i].pc = "write"
    /\ error_count' = task[i].reg + 1
    /\ task' = [task EXCEPT ![i].incs = @ + 1, ![i].pc = "report"]
    /\ UNCHANGED <<detvars, config, ctx, file, result, files, pc, lock, checks, exit_code>>

\* main.rs:56-61, the report is rendered and printed, then the guard is
\* dropped at the end of the if-let block
TaskReport(i) ==
    /\ pc = "parallel"
    /\ task[i].pc = "report"
    /\ lock' = IF lock = i THEN 0 ELSE lock
    /\ task' = [task EXCEPT ![i].pc = "progress"]
    /\ UNCHANGED <<detvars, config, ctx, file, result, files, pc, error_count, checks, exit_code>>

\* main.rs:62, pb.inc(1), the closure returns
TaskProgress(i) ==
    /\ pc = "parallel"
    /\ task[i].pc = "progress"
    /\ task' = [task EXCEPT ![i].pc = "done"]
    /\ UNCHANGED <<detvars, config, ctx, file, result, files, pc, error_count, lock, checks, exit_code>>

\* a shared fail-fast flag: once a check has failed, queued files are dropped
all_done_failfast(t) ==
    \A i \in DOMAIN t :
        \/ t[i].pc = "done"
        \/ t[i].pc = "queued" /\ \E j \in DOMAIN t : t[j].result.kind \notin {"None", "Ok"}

\* rayon's for_each returns when every closure has returned
all_done(t) == \A i \in DOMAIN t : t[i].pc = "done"

\* main.rs:63-65, for_each returns, pb.finish_and_clear()
Join ==
    /\ pc = "parallel"
    /\ all_done(task)
    /\ pc' = "verdict"
    /\ UNCHANGED <<detvars, config, ctx, file, result, files, task, error_count, lock, checks, exit_code>>

\* main.rs:69-75, the exit status for a total
verdict(total) == IF total > 0 THEN 1 ELSE 0

\* main.rs:68-75
Verdict ==
    /\ pc = "verdict"
    /\ mutex_free(lock)
    /\ exit_code' = verdict(error_count)
    /\ pc' = "done"
    /\ UNCHANGED <<detvars, config, ctx, file, result, files, task, error_count, lock, checks>>

Next ==
    \/ LoadConfig
    \/ SetupConfig
    \/ SetupFails
    \/ NoFiles
    \/ StartParallel
    \/ \E i \in FileIdx : TaskAnalyze(i)
    \/ \E i \in FileIdx : TaskLock(i)
    \/ \E i \in FileIdx : TaskRead(i)
    \/ \E i \in FileIdx : TaskWrite(i)
    \/ \E i \in FileIdx : TaskReport(i)
    \/ \E i \in FileIdx : TaskProgress(i)
    \/ Join
    \/ Verdict

Spec == Init /\ [][Next]_vars

(***************************************************************************)
(* Orchestration claims (Spec)                                             *)
(***************************************************************************)
AfterParallel == pc \in {"verdict", "done"} /\ files # <<>>
ErrFiles == {i \in DOMAIN task : is_err(task[i].result) /\ task[i].result # NoResult}

\* C3: under every interleaving of the per-file closures, the count read
\* after the parallel phase is exactly the number of files whose check
\* returned an error: no increment is lost and none is applied twice.
C3_CountEqualsErrFiles ==
    /\ AfterParallel => error_count = Cardinality(ErrFiles)
    /\ \A i \in DOMAIN task : task[i].incs <= 1

\* C3 witness: two files of the run failed their check and both increments
\* are in the total the verdict read.
C3_Witness ==
    /\ pc = "done"
    /\ Cardinality(ErrFiles) >= 2
    /\ error_count = Cardinality(ErrFiles)

\* C4: every file of the discovered list has its rule check invoked exactly
\* once before the verdict, however many other files failed and in whatever
\* order the pool ran them.
C4_EveryFileCheckedOnce ==
    /\ \A i \in DOMAIN checks : checks[i] <= 1
    /\ AfterParallel => \A i \in FileIdx : checks[i] = 1 /\ task[i].result # NoResult

\* C4 witness: a run of three files, one with a parse failure, one with a
\* rule violation and one more, has reached its verdict with each checked.
C4_Witness ==
    /\ pc = "done"
    /\ Len(files) = 3
    /\ \E i, j \in FileIdx :
        /\ task[i].result = SyntaxError
        /\ task[j].result.kind = "ForbiddenImport"
    /\ \A i \in FileIdx : checks[i] = 1

\* C5: a file that cannot be loaded or parsed is counted like a rule
\* violation: its check returns an error, the counter is incremented by one
\* for it, and the run exits with code 1.
C5_ParseFailureCounts ==
    \A i \in DOMAIN task :
        files[i].load # "ok" =>
            /\ task[i].result # NoResult => is_err(task[i].result)
            /\ task[i].pc = "done" => task[i].incs = 1
            /\ AfterParallel => error_count >= 1
            /\ pc = "done" => exit_code = 1

\* C5 witness: a run whose only file has a syntax error has exited with 1
\* and a count of 1.
C5_Witness ==
    /\ pc = "done"
    /\ Len(files) = 1
    /\ files[1].load = "syntax_error"
    /\ task[1].incs = 1
    /\ error_count = 1
    /\ exit_code = 1

(***************************************************************************)
(* circular.rs: build_graph and what it calls                              *)
(*                                                                         *)
(* Paths are Unix paths.  An Option is a sequence of no or one element.    *)
(* The file system is the set fs of the absolute paths of its files; its   *)
(* directories are the proper prefixes of these.                           *)
(***************************************************************************)
S_sep == <<"/">>
S_dot == <<".">>
S_dotdot == <<".", ".">>
S_node_modules == <<"n","o","d","e","_","m","o","d","u","l","e","s">>
S_at == <<"@">>
Extensions == <<<<"t","s">>, <<"t","s","x">>, <<"j","s">>, <<"j","s","x">>>>
S_index_ts == <<"i","n","d","e","x",".","t","s">>
S_index_js == <<"i","n","d","e","x",".","j","s">>

\* the index of the last c in p, 0 when there is none
last_index(p, c) ==
    IF \E i \in 1..Len(p) : p[i] = c
    THEN CHOOSE i \in 1..Len(p) : p[i] = c /\ \A j \in (i + 1)..Len(p) : p[j] # c
    ELSE 0

\* the index of the first c in p, 0 when there is none
first_index(p, c) ==
    IF \E i \in 1..Len(p) : p[i] = c
    THEN CHOOSE i \in 1..Len(p) : p[i] = c /\ \A j \in 1..(i - 1) : p[j] # c
    ELSE 0

\* std::path::Components::trim_right: trailing separators and "." components
\* are no components
RECURSIVE trim_right(_)
trim_right(p) ==
    IF Len(p) > 1 /\ p[Len(p)] = "/" THEN trim_right(SubSeq(p, 1, Len(p) - 1))
    ELSE IF Len(p) > 1 /\ p[Len(p)] = "." /\ p[Len(p) - 1] = "/"
         THEN trim_right(SubSeq(p, 1, Len(p) - 1))
    ELSE p

\* std::path::Components::trim_left, inside a path: leading separators and
\* "." components are no components
RECURSIVE trim_left(_)
trim_left(p) ==
    IF p # <<>> /\ p[1] = "/" THEN trim_left(Tail(p))
    ELSE IF p = S_dot \/ (Len(p) > 1 /\ p[1] = "." /\ p[2] = "/") THEN trim_left(Tail(p))
    ELSE p

\* the text of the last component of p
last_component(p) ==
    LET q == trim_right(p)
    IN  SubSeq(q, last_index(q, "/") + 1, Len(q))

\* Path::parent: the path without its last component, None for the root and
\* for the empty path
parent(p) ==
    LET q == trim_right(p)
        k == last_index(q, "/")
    IN  IF q = <<>> \/ q = S_sep THEN None
        ELSE IF k = 0 THEN Some(<<>>)
        ELSE IF k = 1 THEN Some(S_sep)
        ELSE Some(trim_right(SubSeq(q, 1, k - 1)))

\* PathBuf::push, as Path::join uses it: an absolute argument replaces the
\* path, otherwise it is appended after a separator
join(base, rel) ==
    IF starts_with(rel, S_sep) THEN rel
    ELSE IF base # <<>> /\ base[Len(base)] # "/" THEN base \o S_sep \o rel
    ELSE base \o rel

\* Path::with_extension: the text after the last "." of the file name is
\* replaced by ext; a name whose only "." is its first character, or that
\* has none, is its own stem; a path without a file name is left as it is
with_extension(p, ext) ==
    LET q == trim_right(p)
        k == last_index(q, "/")
        name == SubSeq(q, k + 1, Len(q))
        d == last_index(name, ".")
        stem_len == IF d <= 1 THEN Len(name) ELSE d - 1
    IN  IF name \in {<<>>, S_dot, S_dotdot} THEN p
        ELSE SubSeq(q, 1, k + stem_len) \o S_dot \o ext

\* the components of p as texts, "." and empty ones left out
RECURSIVE segments(_)
segments(p) ==
    LET q == trim_left(p)
        k == first_index(q, "/")
    IN  IF q = <<>> THEN <<>>
        ELSE IF k = 0 THEN <<q>>
        ELSE <<SubSeq(q, 1, k - 1)>> \o segments(SubSeq(q, k + 1, Len(q)))

is_prefix(a, b) == Len(a) <= Len(b) /\ SubSeq(b, 1, Len(a)) = a

\* the file system has a file or a directory, or a directory, at segs
is_node(segs, fs) == \E f \in fs : is_prefix(segs, segments(f))
is_dir(segs, fs) == \E f \in fs : is_prefix(segs, segments(f)) /\ Len(segs) < Len(segments(f))

\* the walk of the file system along the components segs from the
\* directory cur: ".." goes up, a name goes down, and each step needs a
\* directory to start from
RECURSIVE walk(_, _, _)
walk(segs, cur, fs) ==
    IF segs = <<>> THEN is_node(cur, fs)
    ELSE IF ~is_dir(cur, fs) THEN FALSE
    ELSE IF Head(segs) = S_dotdot
         THEN walk(Tail(segs), SubSeq(cur, 1, IF cur = <<>> THEN 0 ELSE Len(cur) - 1), fs)
    ELSE walk(Tail(segs), Append(cur, Head(segs)), fs)

\* Path::exists for an absolute path
exists(p, fs) == starts_with(p, S_sep) /\ walk(segments(p), <<>>, fs)

\* Path::strip_prefix for absolute paths: the components of base are a
\* prefix of those of p; the result is the rest of the text of p, trimmed
RECURSIVE skip_components(_, _)
skip_components(p, n) ==
    LET q == trim_left(p)
        k == first_index(q, "/")
    IN  IF n = 0 THEN trim_right(q)
        ELSE IF k = 0 THEN <<>>
        ELSE skip_components(SubSeq(q, k + 1, Len(q)), n - 1)

strip_prefix(p, base) ==
    IF /\ starts_with(p, S_sep) = starts_with(base, S_sep)
       /\ is_prefix(segments(base), segments(p))
    THEN Some(IF Len(segments(base)) = Len(segments(p)) THEN <<>>
              ELSE skip_components(p, Len(segments(base))))
    ELSE None

\* circular.rs:217, 220, replace('\\', "/")
replace_backslash(s) == [i \in 1..Len(s) |-> IF s[i] = "\\" THEN "/" ELSE s[i]]

\* circular.rs:212-222
normalize_file_path(p, project_root) ==
    LET relative == strip_prefix(p, project_root)
    IN  IF relative # None THEN to_lowercase(replace_backslash(relative[1]))
        ELSE to_lowercase(replace_backslash(p))

\* every resolved import counts as internal
is_internal_always(key) == TRUE

\* circular.rs:225-228
is_internal_dependency(key) == ~contains(key, S_node_modules)

\* circular.rs:170-172, the imports that are not resolved at all
is_external(import_path) ==
    \/ starts_with(import_path, S_at)
    \/ starts_with(import_path, S_node_modules)
    \/ (~starts_with(import_path, S_dot) /\ ~starts_with(import_path, S_sep))

\* circular.rs:184-190, the first extension from index k on with which the
\* path exists
RECURSIVE first_with_ext(_, _, _)
first_with_ext(resolved, k, fs) ==
    IF k > Len(Extensions) THEN None
    ELSE IF exists(with_extension(resolved, Extensions[k]), fs)
         THEN Some(with_extension(resolved, Extensions[k]))
    ELSE first_with_ext(resolved, k + 1, fs)

\* circular.rs:168-209
resolve_import_path(current_file, import_path, fs) ==
    IF is_external(import_path) THEN None
    ELSE IF parent(current_file) = None THEN None
    ELSE LET resolved == join(parent(current_file)[1], import_path)
             with_ext == first_with_ext(resolved, 1, fs)
             index_ts == join(resolved, S_index_ts)
             index_js == join(resolved, S_index_js)
         IN  IF with_ext # None THEN with_ext
             ELSE IF exists(index_ts, fs) THEN Some(index_ts)
             ELSE IF exists(index_js, fs) THEN Some(index_js)
             ELSE IF exists(resolved, fs) THEN Some(resolved)
             ELSE None

\* circular.rs:123-165: None when the file cannot be loaded or parsed,
\* otherwise the sources of its import declarations in order
RECURSIVE import_sources(_)
import_sources(items) ==
    IF items = <<>> THEN <<>>
    ELSE IF Head(items).kind = "import"
         THEN <<Head(items).src>> \o import_sources(Tail(items))
    ELSE import_sources(Tail(items))

extract_imports(f) == IF f.load # "ok" THEN None ELSE Some(import_sources(f.items))

\* a lookup that inserts nothing
entry_lookup(g, key) == g

\* circular.rs:44, 53-56, graph.entry(key).or_insert_with(Vec::new)
entry_or_insert(g, key) ==
    IF key \in DOMAIN g THEN g
    ELSE [k \in DOMAIN g \cup {key} |-> IF k = key THEN <<>> ELSE g[k]]

\* circular.rs:47-59, the loop over the imports of one file
RECURSIVE add_imports(_, _, _, _, _, _)
add_imports(g, current_key, file_path, imports, project_root, fs) ==
    IF imports = <<>> THEN g
    ELSE LET resolved == resolve_import_path(file_path, Head(imports), fs)
             normalized_import == normalize_file_path(resolved[1], project_root)
             g2 == IF resolved # None /\ is_internal_dependency(normalized_import)
                   THEN [entry_or_insert(g, current_key) EXCEPT
                            ![current_key] = Append(@, normalized_import)]
                   ELSE g
         IN  add_imports(g2, current_key, file_path, Tail(imports), project_root, fs)

\* circular.rs:34-63, the loop over files from index i on: [ok, graph],
\* ok FALSE when extract_imports failed for a file and `?` returned the error
RECURSIVE build_from(_, _, _, _, _)
build_from(fls, i, g, project_root, fs) ==
    IF i > Len(fls) THEN [ok |-> TRUE, graph |-> g]
    ELSE LET imports == extract_imports(fls[i])
             current_key == normalize_file_path(fls[i].path, project_root)
         IN  IF imports = None THEN [ok |-> FALSE, graph |-> g]
             ELSE build_from(fls, i + 1,
                     add_imports(entry_or_insert(g, current_key), current_key,
                                 fls[i].path, imports[1], project_root, fs),
                     project_root, fs)

\* an analyzer that takes over the graph built before
new_reusing(project_root) == [graph |-> graph, project_root |-> project_root]

\* circular.rs:26-31, CircularDependencyAnalyzer::new
new(project_root) == [graph |-> <<>>, project_root |-> project_root]

\* circular.rs:256-257, build_graph on a new analyzer
build_graph(fls, project_root, fs) ==
    LET analyzer == new(project_root)
    IN  build_from(fls, 1, analyzer.graph, analyzer.project_root, fs)

(***************************************************************************)
(* circular.rs: detect_cycles and dfs_detect_cycles                        *)
(*                                                                         *)
(* The graph maps a key to the list of its import targets.  A target need  *)
(* not be a key, and a list may hold the same target more than once.  The  *)
(* recursion of dfs_detect_cycles is the sequence frames: each frame is    *)
(* [node, next], next the index of the neighbour the loop scans next.      *)
(* graph.keys() yields every key once, in an order the HashMap chooses.    *)
(***************************************************************************)
Nodes == {"a", "b", "c"}

RECURSIVE total_len(_, _)
total_len(g, K) ==
    IF K = {} THEN 0
    ELSE LET k == CHOOSE x \in K : TRUE
         IN  Len(g[k]) + total_len(g, K \ {k})

GenGraphs ==
    UNION {{g \in [K -> SeqsUpTo(Nodes, MaxDeg)] : total_len(g, K) <= MaxEdges} :
                K \in SUBSET Nodes}

InitDetect ==
    /\ ctx = NoCtx
    /\ file = NoFile
    /\ result = NoResult
    /\ MainIdle
    /\ detect_runs = 0
    /\ graph \in GenGraphs
    /\ todo = {}
    /\ visited = {}
    /\ rec_stack = {}
    /\ path = <<>>
    /\ cycles = <<>>
    /\ frames = <<>>
    /\ dpc = "idle"
    /\ build_runs = 0
    /\ npaths = <<>>
    /\ nkeys = <<>>
    /\ rin = NoResolve
    /\ rout = NoResolved

othervars == <<config, ctx, file, result, files, pc, task, error_count, lock, checks, exit_code, bldvars>>

\* circular.rs:100, self.graph.get(node)
neighbors_of(g, node) == IF node \in DOMAIN g THEN g[node] ELSE <<>>

\* the cycle always starts at the root of the path
cycle_start_root(p, neighbor) == 1

\* circular.rs:106, path.iter().position(|x| x == neighbor).unwrap_or(0),
\* as an index from 1
cycle_start(p, neighbor) ==
    IF \E i \in 1..Len(p) : p[i] = neighbor
    THEN CHOOSE i \in 1..Len(p) : p[i] = neighbor /\ \A h \in 1..(i - 1) : p[h] # neighbor
    ELSE 1

\* circular.rs:231-247, one "x -> y" line per hop
format_cycle_description(cycle) ==
    [i \in 1..(Len(cycle) - 1) |-> <<cycle[i], cycle[i + 1]>>]

\* circular.rs:106-113, the CircularDependency pushed for a back edge
found_cycle(p, neighbor) ==
    LET cycle == Append(SubSeq(p, cycle_start(p, neighbor), Len(p)), neighbor)
    IN  [cycle |-> cycle, description |-> format_cycle_description(cycle)]

\* a report that is already in the list is not pushed again
push_deduplicated(cs, c) == IF \E i \in 1..Len(cs) : cs[i] = c THEN cs ELSE Append(cs, c)

\* circular.rs:110, cycles.push
push(cs, c) == Append(cs, c)

\* every neighbour counts as unvisited
is_unvisited_always(v, neighbor) == TRUE

\* circular.rs:102, the first test on a neighbour
is_unvisited(v, neighbor) == neighbor \notin v

\* a neighbour counts as on the stack only below another node
on_stack_below(rs, neighbor) == neighbor \in rs /\ Cardinality(rs) > 1

\* circular.rs:104, the second test on a neighbour
on_stack(rs, neighbor) == neighbor \in rs

\* a recursion stack that is never popped
stack_remove_never(rs, node) == rs

\* circular.rs:119, rec_stack.remove(node)
stack_remove(rs, node) == rs \ {node}

\* circular.rs:66-70, detect_cycles is called: empty collections, the
\* iteration over graph.keys() begins
DetectStart ==
    /\ dpc = "idle"
    /\ dpc' = "roots"
    /\ detect_runs' = detect_runs + 1
    /\ todo' = DOMAIN graph
    /\ visited' = {}
    /\ rec_stack' = {}
    /\ path' = <<>>
    /\ cycles' = <<>>
    /\ frames' = <<>>
    /\ UNCHANGED <<graph, othervars>>

\* an entry that leaves the recursion stack as it is
DfsEnterUnstacked(node) ==
    /\ visited' = visited \cup {node}
    /\ rec_stack' = rec_stack
    /\ path' = Append(path, node)

\* circular.rs:96-98, entry of dfs_detect_cycles(node)
DfsEnter(node) ==
    /\ visited' = visited \cup {node}
    /\ rec_stack' = rec_stack \cup {node}
    /\ path' = Append(path, node)

\* circular.rs:72-81, the next key is not yet visited: dfs from it
RootVisit ==
    /\ dpc = "roots"
    /\ frames = <<>>
    /\ \E node \in todo :
        /\ is_unvisited(visited, node)
        /\ todo' = todo \ {node}
        /\ DfsEnter(node)
        /\ frames' = <<[node |-> node, next |-> 1]>>
    /\ UNCHANGED <<detect_runs, graph, cycles, dpc, othervars>>

\* circular.rs:72-73, the next key is already visited
RootSkip ==
    /\ dpc = "roots"
    /\ frames = <<>>
    /\ \E node \in todo :
        /\ ~is_unvisited(visited, node)
        /\ todo' = todo \ {node}
    /\ UNCHANGED <<detect_runs, graph, visited, rec_stack, path, cycles, frames, dpc, othervars>>

Top == frames[Len(frames)]
TopNeighbors == neighbors_of(graph, Top.node)
Advance == [frames EXCEPT ![Len(frames)].next = @ + 1]

\* circular.rs:101-103, the neighbour is unvisited: recursive call
DfsRecurse ==
    /\ dpc = "roots"
    /\ frames # <<>>
    /\ Top.next <= Len(TopNeighbors)
    /\ LET neighbor == TopNeighbors[Top.next]
       IN  /\ is_unvisited(visited, neighbor)
           /\ DfsEnter(neighbor)
           /\ frames' = Append(Advance, [node |-> neighbor, next |-> 1])
    /\ UNCHANGED <<detect_runs, graph, todo, cycles, dpc, othervars>>

\* circular.rs:104-114, the neighbour is on the recursion stack: a cycle
DfsCycle ==
    /\ dpc = "roots"
    /\ frames # <<>>
    /\ Top.next <= Len(TopNeighbors)
    /\ LET neighbor == TopNeighbors[Top.next]
       IN  /\ ~is_unvisited(visited, neighbor)
           /\ on_stack(rec_stack, neighbor)
           /\ cycles' = push(cycles, found_cycle(path, neighbor))
    /\ frames' = Advance
    /\ UNCHANGED <<detect_runs, graph, todo, visited, rec_stack, path, dpc, othervars>>

\* circular.rs:101-115, the neighbour is visited and not on the stack
DfsSkip ==
    /\ dpc = "roots"
    /\ frames # <<>>
    /\ Top.next <= Len(TopNeighbors)
    /\ LET neighbor == TopNeighbors[Top.next]
       IN  /\ ~is_unvisited(visited, neighbor)
           /\ ~on_stack(rec_stack, neighbor)
    /\ frames' = Advance
    /\ UNCHANGED <<detect_runs, graph, todo, visited, rec_stack, path, cycles, dpc, othervars>>

\* circular.rs:118-120, the neighbours are exhausted: pop and return
DfsReturn ==
    /\ dpc = "roots"
    /\ frames # <<>>
    /\ Top.next > Len(TopNeighbors)
    /\ path' = SubSeq(path, 1, Len(path) - 1)
    /\ rec_stack' = stack_remove(rec_stack, Top.node)
    /\ frames' = SubSeq(frames, 1, Len(frames) - 1)
    /\ UNCHANGED <<detect_runs, graph, todo, visited, cycles, dpc, othervars>>

\* circular.rs:84, every key has been yielded: cycles is returned
DetectReturn ==
    /\ dpc = "roots"
    /\ frames = <<>>
    /\ todo = {}
    /\ dpc' = "done"
    /\ UNCHANGED <<detect_runs, graph, todo, visited, rec_stack, path, cycles, frames, othervars>>

NextDetect ==
    \/ DetectStart
    \/ RootVisit
    \/ RootSkip
    \/ DfsRecurse
    \/ DfsCycle
    \/ DfsSkip
    \/ DfsReturn
    \/ DetectReturn

SpecDetect == InitDetect /\ [][NextDetect]_vars

(***************************************************************************)
(* Cycle detector claims (SpecDetect)                                      *)
(***************************************************************************)
Range(s) == {s[i] : i \in 1..Len(s)}
EdgesOf(g) == {e \in (DOMAIN g) \X UNION {Range(g[k]) : k \in DOMAIN g} : e[2] \in Range(g[e[1]])}
Successors(g, S) == {e[2] : e \in {d \in EdgesOf(g) : d[1] \in S}}

RECURSIVE ReachableIn(_, _, _)
ReachableIn(g, S, n) ==
    IF n = 0 THEN S ELSE ReachableIn(g, S \cup Successors(g, S), n - 1)

\* some node reaches itself along one edge or more
HasDirectedCycle(g) ==
    \E k \in DOMAIN g : k \in ReachableIn(g, Successors(g, {k}), Cardinality(DOMAIN g))

CycleEdges(c) == {<<c[i], c[i + 1]>> : i \in 1..(Len(c) - 1)}

Triangle == [n \in Nodes |-> IF n = "a" THEN <<"b">> ELSE IF n = "b" THEN <<"c">> ELSE <<"a">>]
Chain == [n \in Nodes |-> IF n = "a" THEN <<"b">> ELSE IF n = "b" THEN <<"c">> ELSE <<>>]

\* C10: whatever the order in which the keys are taken as roots, the
\* detector returns at least one cycle exactly when the graph has a directed
\* cycle; for a->b, b->c, c->a some returned cycle has exactly these three
\* edges, and without c->a nothing is returned.
C10_ReportsIffCyclic ==
    dpc = "done" =>
        /\ cycles # <<>> <=> HasDirectedCycle(graph)
        /\ graph = Triangle =>
            \E i \in 1..Len(cycles) :
                CycleEdges(cycles[i].cycle) = {<<"a", "b">>, <<"b", "c">>, <<"c", "a">>}
        /\ graph = Chain => cycles = <<>>

\* C10 witness: detection has finished on the triangle with a report.
C10_Witness ==
    /\ dpc = "done"
    /\ graph = Triangle
    /\ cycles # <<>>

\* C2 as stated: a run over a non-empty file list has built the graph and
\* run the cycle detector exactly once by the time it exits.
C2_DetectorRunsOnce ==
    (pc = "done" /\ files # <<>>) => detect_runs = 1

(***************************************************************************)
(* The verdict and the project's import cycles (Spec)                      *)
(***************************************************************************)
\* what analyze_circular_dependencies (circular.rs:251-259) would build for
\* the files of the run
ProjectFs == {files[i].path : i \in FileIdx}
ProjectGraph == build_graph(files, ROOT, ProjectFs)
ProjectHasCycle == ProjectGraph.ok /\ HasDirectedCycle(ProjectGraph.graph)

\* C1 as stated: the run exits with 1 if the final violation count is
\* greater than 0 or an import cycle exists among its files, and with 0
\* otherwise; a project with no violation and one import cycle exits with 1.
C1_FailsOnViolationOrCycle ==
    pc = "done" => (exit_code = 1 <=> (error_count > 0 \/ ProjectHasCycle))

(***************************************************************************)
(* Which cycles of the graph the reports cover (SpecDetect)                *)
(***************************************************************************)
\* the simple cycles of g: the sequences of distinct keys in which every
\* element has an edge to the next and the last has an edge to the first
SimpleCycles(g) ==
    {s \in SeqsUpTo(DOMAIN g, Cardinality(DOMAIN g)) :
        /\ s # <<>>
        /\ \A i, j \in 1..Len(s) : s[i] = s[j] => i = j
        /\ \A i \in 1..Len(s) : <<s[i], s[(i % Len(s)) + 1]>> \in EdgesOf(g)}

SimpleCycleEdges(s) == {<<s[i], s[(i % Len(s)) + 1]>> : i \in 1..Len(s)}

\* C11 as stated: when detection has finished, whatever the order of the
\* roots, every simple cycle of the graph has all its edges among the
\* consecutive pairs of one reported cycle.
C11_EverySimpleCycleCaptured ==
    dpc = "done" =>
        \A s \in SimpleCycles(graph) :
            \E i \in 1..Len(cycles) : SimpleCycleEdges(s) \subseteq CycleEdges(cycles[i].cycle)

(***************************************************************************)
(* circular.rs: analyze_circular_dependencies over a project (SpecAnalyze) *)
(*                                                                         *)
(* The files handed over are those collect_files found: the .ts files of   *)
(* the project outside node_modules.  OffList holds what else is on disk.  *)
(* A call builds the graph on a new analyzer and, unless build_graph       *)
(* returned an error, runs detect_cycles on it; it may be called again on  *)
(* the same files.                                                         *)
(***************************************************************************)
MaxRuns == 2       \* calls of analyze_circular_dependencies in one behaviour

P_c == <<"/","p","/","c",".","t","s">>
P_e == <<"/","p","/","e",".","t","s">>
P_s == <<"/","p","/","s","r","c","/","s",".","t","s">>
P_lib == <<"/","p","/","n","o","d","e","_","m","o","d","u","l","e","s","/","l","i","b",".","t","s">>
P_view == <<"/","p","/","s","r","c","/","v","i","e","w",".","t","s","x">>
I_lodash == <<"l","o","d","a","s","h">>
I_scoped == <<"@","s","c","o","p","e","/","x">>
I_vendor == <<"n","o","d","e","_","m","o","d","u","l","e","s","/","x">>
I_lib == <<".","/","n","o","d","e","_","m","o","d","u","l","e","s","/","l","i","b">>
I_src == <<".","/","s","r","c">>
I_e == <<".","/","e">>
I_up_a == <<".",".","/","a">>
I_ctrl == <<".","/","U","s","e","r","C","o","n","t","r","o","l","l","e","r">>
I_view == <<".","/","s","r","c","/","v","i","e","w">>

F_c == [path |-> P_c, load |-> "ok",
        items |-> <<ImportItem(I_a), ImportItem(I_lodash), ImportItem(I_a),
                    ImportItem(I_view)>>]
F_e == [path |-> P_e, load |-> "ok",
        items |-> <<ImportItem(I_scoped), ImportItem(I_vendor), ImportItem(I_lib),
                    ImportItem(I_src), ImportItem(I_e)>>]
F_s == [path |-> P_s, load |-> "ok", items |-> <<ImportItem(I_ctrl), ImportItem(I_up_a)>>]

BuildCatalogue == <<F_a, F_b, F_c, F_e, F_ctrl, F_s, F_bad>>

BuildProjects ==
    {[i \in 1..Cardinality(S) |-> BuildCatalogue[SortedSeq(S)[i]]] :
        S \in {T \in SUBSET (1..Len(BuildCatalogue)) : Cardinality(T) <= MaxFiles}}

\* on disk and not collected: a vendored module and a .tsx file
OffList == {P_lib, P_view}

Disk == {files[i].path : i \in FileIdx} \cup OffList

InitAnalyze ==
    /\ config = NoConfig
    /\ ctx = NoCtx
    /\ file = NoFile
    /\ result = NoResult
    /\ files \in BuildProjects
    /\ pc = "idle"
    /\ task = <<>>
    /\ error_count = 0
    /\ lock = 0
    /\ checks = <<>>
    /\ exit_code = NoExit
    /\ detect_runs = 0
    /\ graph = <<>>
    /\ todo = {}
    /\ visited = {}
    /\ rec_stack = {}
    /\ path = <<>>
    /\ cycles = <<>>
    /\ frames = <<>>
    /\ dpc = "start"
    /\ build_runs = 0
    /\ npaths = <<>>
    /\ nkeys = <<>>
    /\ rin = NoResolve
    /\ rout = NoResolved

mainvars == <<config, ctx, file, result, files, pc, task, error_count, lock, checks, exit_code>>

\* circular.rs:256-257: a new analyzer, build_graph on it; an error of
\* build_graph is returned to the caller, otherwise detect_cycles is next
BuildGraph ==
    /\ dpc = "start"
    /\ LET analyzer == new(ROOT)
           built == build_from(files, 1, analyzer.graph, analyzer.project_root, Disk)
       IN  /\ graph' = built.graph
           /\ dpc' = IF built.ok THEN "idle" ELSE "failed"
    /\ build_runs' = build_runs + 1
    /\ UNCHANGED <<mainvars, detect_runs, todo, visited, rec_stack, path, cycles, frames,
                   npaths, nkeys, rin, rout>>

\* circular.rs:251-255: the caller calls analyze_circular_dependencies again
\* on the same files
AnalyzeAgain ==
    /\ dpc \in {"done", "failed"}
    /\ build_runs < MaxRuns
    /\ dpc' = "start"
    /\ UNCHANGED <<mainvars, detect_runs, graph, todo, visited, rec_stack, path, cycles,
                   frames, build_runs, npaths, nkeys, rin, rout>>

NextAnalyze ==
    \/ BuildGraph
    \/ AnalyzeAgain
    \/ DetectStart
    \/ RootVisit
    \/ RootSkip
    \/ DfsRecurse
    \/ DfsCycle
    \/ DfsSkip
    \/ DfsReturn
    \/ DetectReturn

SpecAnalyze == InitAnalyze /\ [][NextAnalyze]_vars

(***************************************************************************)
(* Graph builder claims (SpecAnalyze)                                      *)
(***************************************************************************)
KeyOf(i) == normalize_file_path(files[i].path, ROOT)
Extractable(i) == files[i].load = "ok"
ImportsOf(i) == IF Extractable(i) THEN import_sources(files[i].items) ELSE <<>>

\* graph is what the last call of build_graph left
Built == build_runs >= 1 /\ dpc # "start"
BuildOk == Built /\ dpc # "failed"

\* C12 as stated: when import extraction fails for a file, build_graph does
\* not return an error, every other file is a key of the graph, and the
\* violation counter is not incremented.
C12_FailedFileSkipped ==
    (Built /\ \E i \in FileIdx : ~Extractable(i)) =>
        /\ dpc # "failed"
        /\ \A j \in FileIdx : Extractable(j) => KeyOf(j) \in DOMAIN graph
        /\ error_count = 0

\* the import sources the builder is said to leave out
SaidExternal(src) ==
    \/ (src # <<>> /\ src[1] = "@")
    \/ is_prefix(S_node_modules, src)
    \/ (src = <<>> \/ src[1] \notin {".", "/"})

\* the paths an import of file i may resolve to
Candidates(i, src) ==
    LET resolved == join(parent(files[i].path)[1], src)
    IN  {with_extension(resolved, Extensions[k]) : k \in 1..Len(Extensions)}
            \cup {join(resolved, S_index_ts), join(resolved, S_index_js), resolved}

\* the components of a path with ".." taken lexically
RECURSIVE Canonical(_, _)
Canonical(segs, cur) ==
    IF segs = <<>> THEN cur
    ELSE IF Head(segs) = S_dotdot
         THEN Canonical(Tail(segs), SubSeq(cur, 1, IF cur = <<>> THEN 0 ELSE Len(cur) - 1))
    ELSE Canonical(Tail(segs), Append(cur, Head(segs)))

IsFile(p) == exists(p, Disk) /\ \E f \in Disk : segments(f) = Canonical(segments(p), <<>>)
IsFileOrDir(p) == exists(p, Disk)

\* the import declarations, as <<file, position>>, that may give key k an edge
InternalImports(k) ==
    UNION {{<<i, n>> : n \in {m \in 1..Len(ImportsOf(i)) : ~SaidExternal(ImportsOf(i)[m])}} :
                i \in {j \in FileIdx : KeyOf(j) = k}}

EdgeCount(g, k, t) == Cardinality({i \in 1..Len(g[k]) : g[k][i] = t})

SameGraph(g, h) ==
    /\ DOMAIN g = DOMAIN h
    /\ \A k \in DOMAIN g :
        \A t \in Range(g[k]) \cup Range(h[k]) : EdgeCount(g, k, t) = EdgeCount(h, k, t)

C20_EveryFileIsAKey ==
    BuildOk => \A i \in FileIdx : KeyOf(i) \in DOMAIN graph

\* C20 witness: a built graph holds a file without imports that resolve as a
\* key with no edges.
C20_Witness ==
    /\ BuildOk
    /\ \E i \in FileIdx :
        /\ ImportsOf(i) # <<>>
        /\ KeyOf(i) \in DOMAIN graph
        /\ graph[KeyOf(i)] = <<>>

(***************************************************************************)
(* circular.rs: normalize_file_path on pairs of paths (SpecNormalize)      *)
(*                                                                         *)
(* The project root is ROOT.  The paths are spellings of /p/a.ts and of    *)
(* /p/src/b.ts with other letter case or backslashes, and the keys of      *)
(* these two files.                                                        *)
(***************************************************************************)
GenNormPaths ==
    {P_a,
     <<"/","p","/","A",".","T","s">>,
     <<"/","P","/","a",".","t","s">>,
     <<"/","p","\\","a",".","t","s">>,
     <<"/","p","/","s","r","c","/","b",".","t","s">>,
     <<"/","p","/","S","R","C","/","B",".","t","s">>,
     <<"/","p","/","s","r","c","\\","b",".","t","s">>,
     <<"/","p","/","S","r","c","\\","B",".","T","S">>,
     <<"\\","p","\\","s","r","c","\\","b",".","t","s">>,
     <<"a",".","t","s">>,
     <<"s","r","c","/","b",".","t","s">>}

InitNormalize ==
    /\ ctx = NoCtx
    /\ file = NoFile
    /\ result = NoResult
    /\ MainIdle
    /\ detect_runs = 0
    /\ graph = <<>>
    /\ todo = {}
    /\ visited = {}
    /\ rec_stack = {}
    /\ path = <<>>
    /\ cycles = <<>>
    /\ frames = <<>>
    /\ dpc = "idle"
    /\ build_runs = 0
    /\ npaths \in GenNormPaths \X GenNormPaths
    /\ nkeys = <<>>
    /\ rin = NoResolve
    /\ rout = NoResolved

\* circular.rs:212-222 applied to both paths and to the two keys returned
NormalizePaths ==
    /\ npaths # <<>>
    /\ nkeys = <<>>
    /\ LET k1 == normalize_file_path(npaths[1], ROOT)
           k2 == normalize_file_path(npaths[2], ROOT)
       IN  nkeys' = <<k1, k2, normalize_file_path(k1, ROOT), normalize_file_path(k2, ROOT)>>
    /\ UNCHANGED <<mainvars, detect_runs, graph, todo, visited, rec_stack, path, cycles,
                   frames, dpc, build_runs, npaths, rin, rout>>

NextNormalize == NormalizePaths

SpecNormalize == InitNormalize /\ [][NextNormalize]_vars

(***************************************************************************)
(* Path normalization claims (SpecNormalize)                               *)
(***************************************************************************)
SameLetter(c, d) ==
    \/ c = d
    \/ \E i \in 1..Len(UpperChars) : {c, d} = {UpperChars[i], LowerChars[i]}
    \/ {c, d} = {"/", "\\"}

DifferOnlyInCaseOrSeparator(p, q) ==
    Len(p) = Len(q) /\ \A i \in 1..Len(p) : SameLetter(p[i], q[i])

\* C14 as stated: two paths that differ only in letter case or in the kind
\* of separator get the same key, and the key of a key is that key.
C14_CaseAndSeparatorCollapse ==
    nkeys # <<>> =>
        /\ DifferOnlyInCaseOrSeparator(npaths[1], npaths[2]) => nkeys[1] = nkeys[2]
        /\ nkeys[3] = nkeys[1]
        /\ nkeys[4] = nkeys[2]

(***************************************************************************)
(* Configuration claims (Spec)                                             *)
(***************************************************************************)
\* architect.json is missing, cannot be read, is no JSON, or lacks what the
\* ConfigFile of config.rs:47-51 requires: an integer max_lines_per_function
\* and an array forbidden_imports whose entries have strings from and to
Malformed(cfg) ==
    \/ cfg.kind \in {"missing", "unreadable", "invalid_json"}
    \/ /\ cfg.kind = "json"
       /\ \/ cfg.max_lines.type # "number"
          \/ ~cfg.is_array
          \/ \E i \in 1..Len(cfg.rules) :
                cfg.rules[i].from.type # "string" \/ cfg.rules[i].to.type # "string"

\* C16 as stated: a run that found a missing or malformed architect.json
\* never gets past the configuration step except by aborting with a non-zero
\* exit code, never makes a rule context, and never starts a file check.
C16_BadConfigIsFatal ==
    Malformed(config) =>
        /\ pc \in {"config", "aborted"}
        /\ pc = "aborted" => exit_code # 0
        /\ ctx = NoCtx
        /\ \A i \in DOMAIN checks : checks[i] = 0

(***************************************************************************)
(* Shape and number of the reports (SpecDetect)                            *)
(***************************************************************************)
\* the neighbour the innermost call of dfs_detect_cycles looks at
Scanned == TopNeighbors[Top.next]

\* the step moves the innermost loop past one neighbour
ScanStep ==
    /\ frames # <<>>
    /\ Top.next <= Len(TopNeighbors)
    /\ Len(frames') >= Len(frames)
    /\ frames'[Len(frames)].next = Top.next + 1

ClosedWalk(c) ==
    /\ Len(c) >= 2
    /\ c[1] = c[Len(c)]
    /\ \A i \in 1..(Len(c) - 1) : <<c[i], c[i + 1]>> \in EdgesOf(graph)

\* c is the part of p from the first n on, followed by n
SuffixFrom(c, p, n) ==
    \E k \in 1..Len(p) :
        /\ p[k] = n
        /\ \A h \in 1..(k - 1) : p[h] # n
        /\ c = Append(SubSeq(p, k, Len(p)), n)

NewReportIsPathSuffix ==
    Len(cycles') > Len(cycles) =>
        /\ ScanStep
        /\ SubSeq(cycles', 1, Len(cycles)) = cycles
        /\ Len(cycles') = Len(cycles) + 1
        /\ SuffixFrom(cycles'[Len(cycles')].cycle, path, Scanned)

\* C17: every reported cycle has at least two elements, ends with its first
\* element and follows edges of the graph; a new report is the current path
\* from the first occurrence of the revisited neighbour on, followed by that
\* neighbour.
C17_ReportedCycleIsClosedWalk ==
    /\ [](\A i \in 1..Len(cycles) : ClosedWalk(cycles[i].cycle))
    /\ [][NewReportIsPathSuffix]_vars

\* C17 witness: the last report is a proper suffix of the current path,
\* closed by its first node.
C17_Witness ==
    /\ cycles # <<>>
    /\ LET c == cycles[Len(cycles)].cycle
       IN  /\ Len(c) >= 3
           /\ Len(path) >= Len(c)
           /\ SuffixFrom(c, path, c[1])

\* the reports whose cycle is c
ReportsOf(c) == {i \in 1..Len(cycles) : cycles[i].cycle = c}

\* C18: when detection has finished, whatever the order of the roots, a key
\* with an edge to itself has the report [n, n], once per such edge.
C18_SelfEdgeReported ==
    dpc = "done" =>
        \A n \in DOMAIN graph :
            Cardinality(ReportsOf(<<n, n>>)) =
                Cardinality({i \in 1..Len(graph[n]) : graph[n][i] = n})

\* C18 witness: detection has finished on a graph with a self-edge at a
\* node that also lies on a longer cycle.
C18_Witness ==
    /\ dpc = "done"
    /\ \E n \in DOMAIN graph :
        /\ ReportsOf(<<n, n>>) # {}
        /\ \E i \in 1..Len(cycles) : Len(cycles[i].cycle) >= 3 /\ cycles[i].cycle[1] = n

OneReportPerStackEdge ==
    IF ScanStep
    THEN IF Scanned \in rec_stack
         THEN Len(cycles') = Len(cycles) + 1 /\ SubSeq(cycles', 1, Len(cycles)) = cycles
         ELSE cycles' = cycles
    ELSE cycles' = cycles \/ (dpc = "idle" /\ cycles' = <<>>)

DuplicatedBackEdge == [n \in {"a", "b"} |-> IF n = "a" THEN <<"b">> ELSE <<"a", "a">>]

\* C19: a step adds one report exactly when it scans an edge whose target
\* is on the recursion stack, and no report is ever taken away; for a -> b,
\* b -> a, b -> a the result is [a, b, a] twice when a is the first root
\* (both copies of b -> a close the cycle) and [b, a, b] once when b is.
C19_OneReportPerStackEdge ==
    /\ [][OneReportPerStackEdge]_vars
    /\ []((dpc = "done" /\ graph = DuplicatedBackEdge) =>
            [i \in 1..Len(cycles) |-> cycles[i].cycle] \in
                {<<<<"a", "b", "a">>, <<"a", "b", "a">>>>, <<<<"b", "a", "b">>>>})

\* C19 witness: detection has finished with the same report twice.
C19_Witness ==
    /\ dpc = "done"
    /\ \E i, j \in 1..Len(cycles) : i < j /\ cycles[i] = cycles[j]

\* C21 as stated: after build_graph returned Ok, every edge target is a key
\* of the graph, also a target whose file was not in the list of files.
C21_EdgeTargetsAreKeys ==
    BuildOk => \A k \in DOMAIN graph : \A t \in Range(graph[k]) : t \in DOMAIN graph

(***************************************************************************)
(* circular.rs: resolve_import_path on one import (SpecResolve)            *)
(*                                                                         *)
(* The importing file is /p/a.ts; the disk holds it and at most MaxDisk    *)
(* of the files an import of it may mean.                                  *)
(***************************************************************************)
MaxDisk == 3       \* files on disk besides the importing file

I_service == <<".","/","u","s","e","r",".","s","e","r","v","i","c","e">>
I_libdir == <<".","/","l","i","b">>
I_abs_b == <<"/","p","/","b">>

GenImports == {I_b, I_service, I_libdir, I_abs_b, I_lodash}

GenDiskFiles ==
    {<<"/","p","/","b",".","t","s">>,
     <<"/","p","/","b",".","t","s","x">>,
     <<"/","p","/","b",".","j","s">>,
     <<"/","p","/","b",".","j","s","x">>,
     <<"/","p","/","b","/","i","n","d","e","x",".","t","s">>,
     <<"/","p","/","u","s","e","r",".","s","e","r","v","i","c","e",".","t","s">>,
     <<"/","p","/","u","s","e","r",".","t","s">>,
     <<"/","p","/","l","i","b","/","i","n","d","e","x",".","t","s">>,
     <<"/","p","/","l","i","b","/","i","n","d","e","x",".","j","s">>,
     <<"/","p","/","l","i","b","/","m",".","t","s">>}

GenDisks == {{P_a} \cup D : D \in {E \in SUBSET GenDiskFiles : Cardinality(E) <= MaxDisk}}

InitResolve ==
    /\ ctx = NoCtx
    /\ file = NoFile
    /\ result = NoResult
    /\ MainIdle
    /\ detect_runs = 0
    /\ graph = <<>>
    /\ todo = {}
    /\ visited = {}
    /\ rec_stack = {}
    /\ path = <<>>
    /\ cycles = <<>>
    /\ frames = <<>>
    /\ dpc = "idle"
    /\ build_runs = 0
    /\ npaths = <<>>
    /\ nkeys = <<>>
    /\ rin \in {[current_file |-> P_a, import_path |-> src, fs |-> D] :
                    src \in GenImports, D \in GenDisks}
    /\ rout = NoResolved

\* circular.rs:168-209
ResolveImport ==
    /\ rin # NoResolve
    /\ ~rout.done
    /\ rout' = [done |-> TRUE,
                path |-> resolve_import_path(rin.current_file, rin.import_path, rin.fs)]
    /\ UNCHANGED <<mainvars, detect_runs, graph, todo, visited, rec_stack, path, cycles,
                   frames, dpc, build_runs, npaths, nkeys, rin>>

NextResolve == ResolveImport

SpecResolve == InitResolve /\ [][NextResolve]_vars

(***************************************************************************)
(* Import resolution claims (SpecResolve)                                  *)
(***************************************************************************)
\* the candidates in the order stated: the specifier in the importing
\* file's directory with each extension appended, its index.ts, its
\* index.js, the specifier itself
StatedCandidates(current_file, src) ==
    LET resolved == join(parent(current_file)[1], src)
    IN  [k \in 1..Len(Extensions) |-> resolved \o S_dot \o Extensions[k]]
            \o <<join(resolved, S_index_ts), join(resolved, S_index_js), resolved>>

RECURSIVE FirstExisting(_, _)
FirstExisting(cands, fs) ==
    IF cands = <<>> THEN None
    ELSE IF exists(Head(cands), fs) THEN Some(Head(cands))
    ELSE FirstExisting(Tail(cands), fs)

\* C22 as stated: for a relative import the result is the first of the
\* stated candidates that exists, and None when none of them exists.
C22_FirstExistingCandidate ==
    (rout.done /\ rin.import_path[1] = ".") =>
        rout.path = FirstExisting(StatedCandidates(rin.current_file, rin.import_path), rin.fs)

(***************************************************************************)
(* Bookkeeping and termination of the detector (SpecDetect, SpecDetectFair)*)
(***************************************************************************)
\* C23: while detect_cycles runs and when it has returned, the recursion
\* stack holds exactly the nodes of the path, the path holds no node twice
\* and only visited nodes, and the path is the chain of the active calls;
\* between two roots and at the end path and recursion stack are empty; a
\* neighbour that is about to be reported is on the path, so position()
\* finds it.
C23_StackIsPath ==
    dpc \in {"roots", "done"} =>
        /\ rec_stack = Range(path)
        /\ \A i, j \in 1..Len(path) : path[i] = path[j] => i = j
        /\ Range(path) \subseteq visited
        /\ path = [i \in 1..Len(frames) |-> frames[i].node]
        /\ frames = <<>> => (path = <<>> /\ rec_stack = {})
        /\ (frames # <<>> /\ Top.next <= Len(TopNeighbors) /\ Scanned \in visited
                /\ Scanned \in rec_stack)
            => \E i \in 1..Len(path) : path[i] = Scanned

\* C23 witness: a call three deep is about to report a neighbour that is
\* not the root of the path.
C23_Witness ==
    /\ dpc = "roots"
    /\ Len(path) = 3
    /\ Top.next <= Len(TopNeighbors)
    /\ Scanned \in rec_stack
    /\ Scanned # path[1]

\* detect_cycles runs on one thread and every step of it is taken
SpecDetectFair == SpecDetect /\ WF_vars(NextDetect)

\* a step enters a node: the path grows by it
Enters(node) == Len(path') = Len(path) + 1 /\ path'[Len(path')] = node

\* a node is entered only while unvisited and stays visited from then on,
\* and no step changes the graph
EnteredOnceGraphKept ==
    /\ \A node \in Nodes : Enters(node) => (node \notin visited /\ node \in visited')
    /\ visited \subseteq visited'
    /\ graph' = graph

\* C24: on every generated graph, with cycles, self-loops, duplicate edges
\* and targets that are no keys, detect_cycles returns; no node is entered
\* twice; every key is visited at the end; the graph is never changed.
C24_DetectionTerminates ==
    /\ <>(dpc = "done")
    /\ [][EnteredOnceGraphKept]_vars
    /\ [](dpc = "done" => (DOMAIN graph \subseteq visited /\ frames = <<>>))

\* C24 witness: detection has returned on a graph with a cycle, a
\* duplicated edge and an edge to a node that is no key.
C24_Witness ==
    /\ dpc = "done"
    /\ cycles # <<>>
    /\ \E k \in DOMAIN graph :
        /\ \E i, j \in 1..Len(graph[k]) : i < j /\ graph[k][i] = graph[k][j]
    /\ \E k \in DOMAIN graph : \E t \in Range(graph[k]) : t \notin DOMAIN graph

====
